---- MODULE Spec2Model ----
(***************************************************************************)
(* A model of the service monitor: the health fetch and snapshot differ,   *)
(* the availability decision, the persistence update, the render, and the  *)
(* cycle that aggregates the renders into one report and sends it.         *)
(*                                                                         *)
(* Spec         the monitoring loop of monitorApplications in its current  *)
(*              form (property diff, response_map snapshot), one service   *)
(*              watched over cycles that follow one another.               *)
(* SpecOverlap  the same, the scheduled job firing while an interval cycle *)
(*              runs, and the reverse.                                     *)
(* SpecCycle    one cycle over several services.                           *)
(* SpecDiff     the snapshot differ alone, applied to every pair of a      *)
(*              stored snapshot and a fetched property map of a bounded    *)
(*              domain.                                                    *)
(* SpecLegacy   the loop of src/services/monitorApplications.service.ts,   *)
(*              which keeps is_alive_transition_notified_by_monitor and    *)
(*              no snapshot, one service over cycles that follow one       *)
(*              another.                                                   *)
(* SpecDuration formatDuration alone, applied to every elapsed time of a   *)
(*              bounded range, negative ones included.                     *)
(* SpecLoop     the sequential interval alone, the scheduled job never     *)
(*              firing, with weak fairness of the loop's steps.            *)
(***************************************************************************)
EXTENDS Integers, Sequences, FiniteSets, TLC

VARIABLES
    db,         \* monitor_applications table: service id -> row
    now,        \* the wall clock, in milliseconds
    cyc,        \* the in-flight invocation of monitorApplications, per trigger
    timer,      \* the instant the sequential interval's timeout fires, or -1
    started,    \* how many cycles have been started so far
    posts,      \* reports handed to the chat API whose post has not settled
    halted,     \* the process ended on an unhandled rejection
    dPrevious,  \* SpecDiff: the stored response_map handed to the differ
    dCurrent,   \* SpecDiff: the fetched monitor map handed to the differ
    dHealth,    \* SpecDiff: the health map the differ returned, or Null
    tElapsed,   \* SpecDuration: now minus the transition time, in milliseconds
    tText       \* SpecDuration: the parts formatDuration returned for it, or <<>>

mainVars == <<db, now, cyc, timer, started, posts, halted>>
\* the variables of the specifications of the pure functions
diffVars == <<dPrevious, dCurrent, dHealth, tElapsed, tText>>
vars == <<db, now, cyc, timer, started, posts, halted, dPrevious, dCurrent, dHealth,
          tElapsed, tText>>

-----------------------------------------------------------------------------
(* Bounds of the model.                                                    *)

NumServices == 2
MaxProps == 2
MaxTicks == 1
MaxCycles == 2

-----------------------------------------------------------------------------
(* JavaScript values. A value is a record tagged with its typeof; an       *)
(* object carries its fields. Values arrive by JSON.parse (the gateway's   *)
(* response, the stored response_map column), so two object values are     *)
(* never the same reference.                                               *)

Null == [t |-> "none"]

Undefined == [t |-> "undefined"]
NullV == [t |-> "null"]
Num(n) == [t |-> "number", n |-> n]
Str(s) == [t |-> "string", s |-> s]
ObjX(n) == [t |-> "object", fields |-> [x |-> n]]

\* remeda isObjectType: typeof data === "object" && data !== null
isObjectType(v) == v.t = "object"

\* ToBoolean of a value, as `!v` and `v && ...` apply it
Truthy(v) ==
    CASE v.t = "object" -> TRUE
      [] v.t = "number" -> v.n # 0
      [] v.t = "string" -> v # Str("")
      [] OTHER -> FALSE

\* a === b: objects compare by reference, and no two parsed objects share one
StrictEquals(a, b) ==
    IF isObjectType(a) /\ isObjectType(b) THEN FALSE ELSE a = b

isDeepEqualByReference(a, b) == StrictEquals(a, b)

\* remeda isDeepEqual on two plain objects: same keys, each field equal
isDeepEqual(a, b) ==
    /\ DOMAIN a.fields = DOMAIN b.fields
    /\ \A f \in DOMAIN a.fields : a.fields[f] = b.fields[f]

-----------------------------------------------------------------------------
(* Record<string, IProperty>: an object used as a map keeps its keys in    *)
(* insertion order, so a map is a sequence of entries with distinct keys.  *)

Entry(k, v) == [k |-> k, v |-> v]

Keys(m) == {m[i].k : i \in DOMAIN m}

\* m[key]: undefined when the key is absent
Get(m, k) ==
    IF k \in Keys(m) THEN m[CHOOSE i \in DOMAIN m : m[i].k = k].v ELSE Undefined

\* m[key] = v: an existing key keeps its place, a new key is appended
Assign(m, k, v) ==
    IF k \in Keys(m)
    THEN [i \in DOMAIN m |-> IF m[i].k = k THEN Entry(k, v) ELSE m[i]]
    ELSE Append(m, Entry(k, v))

\* { ...m1, ...m2 }
RECURSIVE Spread(_, _)
Spread(m1, m2) ==
    IF m2 = <<>> THEN m1
    ELSE Spread(Assign(m1, Head(m2).k, Head(m2).v), Tail(m2))

Range(s) == {s[i] : i \in DOMAIN s}

-----------------------------------------------------------------------------
(* fetchMonitorApplicationHealthMap, the part after the gateway answered.  *)

\* `${ elapsedMiliseconds.toFixed(1) }ms`
ToFixedMs(elapsed) == [t |-> "string", fixed1 |-> elapsed, unit |-> "ms"]

defaultRetentionMap(elapsed) ==
    <<Entry("responseTime",
            [t |-> "object", name |-> "Tempo de resposta", value |-> ToFixedMs(elapsed)])>>

\* oldProperty?.value
OptValue(p) == IF isObjectType(p) THEN p.value ELSE Undefined

IsModifiedNever(newProperty, oldProperty) == FALSE

IsModifiedIgnoringFlag(newProperty, oldProperty) ==
    /\ isObjectType(newProperty)
    /\ newProperty.value # Undefined
    /\ IF isObjectType(newProperty.value) /\ isObjectType(OptValue(oldProperty))
       THEN ~isDeepEqual(newProperty.value, OptValue(oldProperty))
       ELSE ~StrictEquals(newProperty.value, OptValue(oldProperty))

\* the test that puts a key found in both maps into propertyModifiedMap
IsModified(newProperty, oldProperty) ==
    /\ isObjectType(newProperty)
    /\ newProperty.value # Undefined
    /\ newProperty.isListeningModifiedEvent
    /\ IF isObjectType(newProperty.value) /\ isObjectType(OptValue(oldProperty))
       THEN ~isDeepEqual(newProperty.value, OptValue(oldProperty))
       ELSE ~StrictEquals(newProperty.value, OptValue(oldProperty))

\* the response_map column: JSON null, or a JSON object used as a map
MapValue(m) == [t |-> "object", map |-> m]

\* a Set<string>, in insertion order
SetValue(q) == [t |-> "object", set |-> q]

\* monitorApplicationResponseMap ? new Set(Object.keys(...)) : null
ResponseMapKeySet(previous) == IF Truthy(previous) THEN Keys(previous.map) ELSE {}

\* monitorApplicationResponseMap?.[key] reads through this map
PrevMap(previous) == IF Truthy(previous) THEN previous.map ELSE <<>>

IsAddedNullAsEmptyMatch(previous, key) ==
    Truthy(previous) /\ key \notin Keys(previous.map)

\* !monitorApplicationResponseMapKeySet?.has(key)
IsAdded(previous, key) == ~Truthy(previous) \/ key \notin Keys(previous.map)

PropertyAddedMap(previous, current) ==
    SelectSeq(current, LAMBDA e : IsAdded(previous, e.k))

PropertyModifiedMap(previous, current) ==
    SelectSeq(current, LAMBDA e :
        ~IsAdded(previous, e.k) /\ IsModified(e.v, Get(PrevMap(previous), e.k)))

PropertyRemovedSetByValue(previous, current) ==
    IF ~Truthy(previous) THEN <<>>
    ELSE LET gone == SelectSeq(previous.map, LAMBDA e : ~Truthy(Get(current, e.k)))
         IN  [i \in DOMAIN gone |-> gone[i].k]

\* a Set<string>, in the stored map's key order
PropertyRemovedSet(previous, current) ==
    IF ~Truthy(previous) THEN <<>>
    ELSE LET gone == SelectSeq(previous.map, LAMBDA e : e.k \notin Keys(current))
         IN  [i \in DOMAIN gone |-> gone[i].k]

\* the filter of the retention map: !added[key] && !modified[key] && !removed.has(key)
IsRetained(added, modified, removed, key) ==
    /\ ~Truthy(Get(added, key))
    /\ ~Truthy(Get(modified, key))
    /\ key \notin Range(removed)

PropertyRetentionMap(added, modified, removed, current, elapsed) ==
    Spread(SelectSeq(current, LAMBDA e : IsRetained(added, modified, removed, e.k)),
           defaultRetentionMap(elapsed))

Differ(previous, current, elapsed) ==
    LET added == PropertyAddedMap(previous, current)
        modified == PropertyModifiedMap(previous, current)
        removed == PropertyRemovedSet(previous, current)
    IN  [isHealthy |-> TRUE,
         responseMap |-> MapValue(current),
         propertyAddedMap |-> MapValue(added),
         propertyModifiedMap |-> MapValue(modified),
         propertyRemovedSet |-> SetValue(removed),
         propertyRetentionMap |->
             PropertyRetentionMap(added, modified, removed, current, elapsed)]

\* the health map of the early returns: no diff, only the response time
WithoutMonitor(isHealthy, elapsed) ==
    [isHealthy |-> isHealthy,
     responseMap |-> Undefined,
     propertyAddedMap |-> Undefined,
     propertyModifiedMap |-> Undefined,
     propertyRemovedSet |-> Undefined,
     propertyRetentionMap |-> defaultRetentionMap(elapsed)]

-----------------------------------------------------------------------------
(* The gateway's answer to one fetch, as the code tells the cases apart.   *)

REQUEST_TIMEOUT == 60000
MONITORING_INTERVAL == 60000
MsPerMinute == 60000

\* the clock is read at whole intervals
TickMs == MONITORING_INTERVAL

\* the registered services: the ids of the monitor_applications rows
Services == DOMAIN db
Triggers == {"interval", "periodic"}

Property(value, watch) ==
    [t |-> "object", name |-> "n", value |-> value, isListeningModifiedEvent |-> watch]

\* the snapshot a row may hold at boot
StoredMap ==
    <<Entry("count", Property(Num(1), TRUE)), Entry("label", Property(Num(1), FALSE))>>

\* the monitor maps the gateway serves: the stored one, one with only the
\* unwatched value changed, one with both values changed, one with a key gone
\* and a new key
MainMaps ==
    { StoredMap,
      <<Entry("count", Property(Num(1), TRUE)), Entry("label", Property(Num(2), FALSE))>>,
      <<Entry("count", Property(Num(2), TRUE)), Entry("label", Property(Num(2), FALSE))>>,
      <<Entry("count", Property(Num(1), TRUE)), Entry("extra", Property(Num(1), TRUE))>> }

\* noResponse     the post rejected or timed out, or response.data.data is missing
\* lookupError    prisma.api_gateway_apis.findUnique rejected
\* noApi          findUnique resolved to null
\* noSubResponse  response.data.data has no entry under api.name
\* status         an entry without an object under data.monitor
\* monitor        an entry with a monitor map
Outcomes ==
    [kind : {"noResponse", "lookupError", "noApi", "noSubResponse"}]
    \cup [kind : {"status"}, status : BOOLEAN]
    \cup [kind : {"monitor"}, monitor : MainMaps]

\* subResponse.status is read off a null or undefined subResponse
FetchThrows(outcome) == outcome.kind \in {"lookupError", "noApi", "noSubResponse"}

fetchMonitorApplicationHealthMap(monitorApplication, outcome, elapsed) ==
    CASE outcome.kind = "noResponse" -> WithoutMonitor(FALSE, elapsed)
      [] outcome.kind = "status" -> WithoutMonitor(outcome.status, elapsed)
      [] outcome.kind = "monitor" ->
            Differ(monitorApplication.response_map, outcome.monitor, elapsed)

-----------------------------------------------------------------------------
(* formatDuration and formatMonitorApplicationMessageMap.                  *)

\* a % b of JavaScript: the remainder takes the sign of the dividend
JsRem(a, b) == IF a >= 0 THEN a % b ELSE -((-a) % b)

Part(n, unit) == [n |-> n, unit |-> unit]

formatDurationHoursOfTotal(elapsedMs) ==
    LET totalMinutes == elapsedMs \div MsPerMinute
        days == totalMinutes \div (60 * 24)
        hours == totalMinutes \div 60
        minutes == JsRem(totalMinutes, 60)
        partList ==
            (IF days > 0 THEN <<Part(days, "d")>> ELSE <<>>)
            \o (IF hours > 0 THEN <<Part(hours, "h")>> ELSE <<>>)
            \o (IF minutes > 0 THEN <<Part(minutes, "m")>> ELSE <<>>)
    IN  IF Len(partList) > 0 THEN partList ELSE <<Part(0, "m")>>

\* elapsedMs / 60_000 is floored first, so the minutes are elapsedMs \div 60000
formatDuration(elapsedMs) ==
    LET totalMinutes == elapsedMs \div MsPerMinute
        days == totalMinutes \div (60 * 24)
        hours == JsRem(totalMinutes, 60 * 24) \div 60
        minutes == JsRem(totalMinutes, 60)
        partList ==
            (IF days > 0 THEN <<Part(days, "d")>> ELSE <<>>)
            \o (IF hours > 0 THEN <<Part(hours, "h")>> ELSE <<>>)
            \o (IF minutes > 0 THEN <<Part(minutes, "m")>> ELSE <<>>)
    IN  IF Len(partList) > 0 THEN partList ELSE <<Part(0, "m")>>

\* property.name of a property that is not an object is undefined
NameOf(p) == IF isObjectType(p) THEN Str(p.name) ELSE Undefined

Line(mark, name, value) == [mark |-> mark, name |-> name, value |-> value]

PropertyLines(mark, m) ==
    [i \in DOMAIN m |-> Line(mark, NameOf(m[i].v), OptValue(m[i].v))]

Message(applicationType, since, lines) ==
    [t |-> "string", header |-> applicationType, since |-> since, lines |-> lines]

HasEntries(optionalMap) == Truthy(optionalMap) /\ Len(optionalMap.map) > 0

\* property.name of a null property is a TypeError
FormatThrows(health) ==
    \/ HasEntries(health.propertyAddedMap)
         /\ \E i \in DOMAIN health.propertyAddedMap.map :
                health.propertyAddedMap.map[i].v = NullV
    \/ HasEntries(health.propertyModifiedMap)
         /\ \E i \in DOMAIN health.propertyModifiedMap.map :
                health.propertyModifiedMap.map[i].v = NullV
    \/ \E i \in DOMAIN health.propertyRetentionMap :
            health.propertyRetentionMap[i].v = NullV

\* the "= Desde:" line: the time from isAliveTransitionAt to the render
SinceLine(isAliveTransitionAt, at) ==
    IF isAliveTransitionAt = Undefined THEN Undefined
    ELSE [t |-> "string", desde |-> formatDuration(at - isAliveTransitionAt.time)]

DateValue(time) == [t |-> "object", time |-> time]

formatMonitorApplicationMessageMap(id, health, isAliveTransitionAt, at) ==
    [propertyAddedMessage |->
        IF HasEntries(health.propertyAddedMap)
        THEN Message(id, Undefined, PropertyLines("+", health.propertyAddedMap.map))
        ELSE Undefined,
     propertyModifiedMessage |->
        IF HasEntries(health.propertyModifiedMap)
        THEN Message(id, Undefined, PropertyLines("~", health.propertyModifiedMap.map))
        ELSE Undefined,
     propertyRemovedMessage |->
        IF Truthy(health.propertyRemovedSet) /\ Len(health.propertyRemovedSet.set) > 0
        THEN Message(id, Undefined,
                 [i \in DOMAIN health.propertyRemovedSet.set |->
                     Line("-", Str(health.propertyRemovedSet.set[i]), Undefined)])
        ELSE Undefined,
     propertyRetentionMessage |->
        Message(id, SinceLine(isAliveTransitionAt, at),
                PropertyLines("=", health.propertyRetentionMap))]

-----------------------------------------------------------------------------
(* processMonitorApplication: the gate and what it hands to the update.    *)

isAliveTransitioned(monitorApplication, health) ==
    health.isHealthy # monitorApplication.is_alive

hasPropertyAdded(health) == HasEntries(health.propertyAddedMap)
hasPropertyModified(health) == HasEntries(health.propertyModifiedMap)
hasPropertyRemoved(health) ==
    Truthy(health.propertyRemovedSet) /\ Len(health.propertyRemovedSet.set) > 0

ReportableOnAnyMap(isPeriodicWarn, monitorApplication, health) ==
    \/ isPeriodicWarn
    \/ isAliveTransitioned(monitorApplication, health)
    \/ health.responseMap # Undefined

ReportableOnTransition(isPeriodicWarn, monitorApplication, health) ==
    \/ isPeriodicWarn
    \/ isAliveTransitioned(monitorApplication, health)

ReportableAlways(isPeriodicWarn, monitorApplication, health) == TRUE

Reportable(isPeriodicWarn, monitorApplication, health) ==
    \/ isPeriodicWarn
    \/ isAliveTransitioned(monitorApplication, health)
    \/ hasPropertyAdded(health)
    \/ hasPropertyModified(health)
    \/ hasPropertyRemoved(health)

NewIsHealthyKept(monitorApplication, health) == monitorApplication.is_alive

NewIsHealthy(monitorApplication, health) ==
    IF isAliveTransitioned(monitorApplication, health)
    THEN health.isHealthy ELSE monitorApplication.is_alive

NewTransitionAt(monitorApplication, health, updatedAt) ==
    IF isAliveTransitioned(monitorApplication, health)
    THEN updatedAt ELSE monitorApplication.is_alive_transition_at

SinceArgumentAlways(isPeriodicWarn, monitorApplication, health, isAliveTransitionAt) ==
    DateValue(isAliveTransitionAt)

SinceArgumentStored(isPeriodicWarn, monitorApplication, health, isAliveTransitionAt) ==
    IF isPeriodicWarn \/ isAliveTransitioned(monitorApplication, health)
    THEN DateValue(monitorApplication.is_alive_transition_at) ELSE Undefined

\* the third argument of formatMonitorApplicationMessageMap
SinceArgument(isPeriodicWarn, monitorApplication, health, isAliveTransitionAt) ==
    IF isPeriodicWarn \/ isAliveTransitioned(monitorApplication, health)
    THEN DateValue(isAliveTransitionAt) ELSE Undefined

-----------------------------------------------------------------------------
(* The state of Spec.                                                      *)

\* one call of processMonitorApplication: where it stands (pc), what the
\* gateway answered (outcome), the health map, the arguments of the update,
\* the row the update replaced and the row it wrote (over and wrote, Null
\* while nothing is written), when the render was made, which stage threw
\* (error), and the value returned (result, Null for null)
NoTask ==
    [pc |-> "none", outcome |-> Null, health |-> Null, isHealthy |-> FALSE,
     isAliveTransitionAt |-> 0, updatedAt |-> 0, over |-> Null, wrote |-> Null,
     renderedAt |-> 0, error |-> "", result |-> Null]

NoSizes == [online |-> 0, offline |-> 0, added |-> 0, modified |-> 0, removed |-> 0]

\* sizes, failed and delivers describe the cycle that ended last: the lengths
\* of its five lists, how many of its calls ended in the catch, and how often
\* it called the chat API
IdleCycle ==
    [phase |-> "idle", startTime |-> 0, rows |-> <<>>,
     tasks |-> [s \in Services |-> NoTask],
     sizes |-> NoSizes, failed |-> 0, delivers |-> 0]

\* the rows at boot: registered some time ago, with or without a snapshot;
\* a deactivated row is never read, so one such row stands for all
Rows ==
    [is_alive : BOOLEAN,
     is_alive_transition_at : {0},
     updated_at : {0},
     response_map : {NullV, MapValue(StoredMap)},
     is_monitor_application_active : {TRUE}]
    \cup
    [is_alive : {FALSE},
     is_alive_transition_at : {0},
     updated_at : {0},
     response_map : {NullV},
     is_monitor_application_active : {FALSE}]

Booted ==
    /\ cyc = [k \in Triggers |-> IdleCycle]
    /\ timer = 0
    /\ posts = <<>>
    /\ halted = FALSE
    /\ dPrevious = NullV
    /\ dCurrent = <<>>
    /\ dHealth = Null
    /\ tElapsed = 0
    /\ tText = <<>>

\* one service, watched over MaxCycles cycles
Init ==
    /\ db \in [{1} -> Rows]
    /\ Booted
    /\ now = 0
    /\ started = 0

\* NumServices services that have a snapshot, or are deactivated, watched
\* over one cycle
InitCycle ==
    /\ db \in [1..NumServices ->
                {r \in Rows : r.response_map # NullV \/ ~r.is_monitor_application_active}]
    /\ Booted
    /\ now = MaxTicks * TickMs
    /\ started = MaxCycles - 1

isPeriodicWarn(k) == k = "periodic"

findManyUnfiltered == [s \in Services |-> db[s]]

\* prisma.monitor_applications.findMany({ where: { is_monitor_application_active: true } })
findMany == [s \in Services |->
                IF db[s].is_monitor_application_active THEN db[s] ELSE Null]

\* the instants the clock can show when the next callback runs
Later == {now + i * TickMs : i \in 0..MaxTicks} \cap 0..(MaxTicks * TickMs)

TimerRepeating(k) ==
    IF k = "interval" THEN now + MONITORING_INTERVAL ELSE timer

\* executeWithDelay awaits the handler before it calls setTimeout: while the
\* handler of the interval runs no timeout is pending (-1)
TimerWhileRunning(k) ==
    IF k = "interval" THEN -1 ELSE timer

StartedInTurn(rows) ==
    LET first == CHOOSE s \in DOMAIN rows :
                    \A u \in DOMAIN rows : rows[u] # Null => s <= u
    IN  [s \in DOMAIN rows |->
            IF rows[s] = Null \/ s # first THEN NoTask
            ELSE [NoTask EXCEPT !.pc = "fetching"]]

\* monitorApplicationList.map(...): processMonitorApplication is called for
\* every row of the list at once, each call running up to its first await
Started(rows) ==
    [s \in DOMAIN rows |->
        IF rows[s] = Null THEN NoTask ELSE [NoTask EXCEPT !.pc = "fetching"]]

\* monitorApplications is entered: by the timeout of createSequentialInterval
\* (at once at boot), or by the scheduled job
StartCycle(k, loaded, at, overlapping) ==
    /\ ~halted
    /\ cyc[k].phase = "idle"
    /\ overlapping \/ \A j \in Triggers : cyc[j].phase = "idle"
    /\ started < MaxCycles
    /\ k = "interval" => (timer >= 0 /\ at >= timer)
    /\ now' = at
    /\ started' = started + 1
    /\ IF loaded
       THEN /\ cyc' = [cyc EXCEPT ![k] =
                        [phase |-> "running", startTime |-> at, rows |-> findMany,
                         tasks |-> Started(findMany),
                         sizes |-> NoSizes, failed |-> 0, delivers |-> 0]]
            /\ timer' = TimerWhileRunning(k)
       ELSE \* findMany rejected: caught and logged, the handler returns
            /\ cyc' = [cyc EXCEPT ![k] = IdleCycle]
            /\ timer' = IF k = "interval" THEN at + MONITORING_INTERVAL ELSE timer
    /\ UNCHANGED <<db, posts, halted, diffVars>>

CaughtButRendered(task, stage) ==
    [task EXCEPT !.pc = "done", !.error = stage, !.result =
        [isHealthy |-> task.isHealthy,
         messageMap |-> [propertyAddedMessage |-> Undefined,
                         propertyModifiedMessage |-> Undefined,
                         propertyRemovedMessage |-> Undefined,
                         propertyRetentionMessage |-> Message(0, Undefined, <<>>)]]]

\* the catch of processMonitorApplication: the error is logged, null returned
Caught(task, stage) ==
    [task EXCEPT !.pc = "done", !.error = stage, !.result = Null]

DecidedStoredOnPeriodic(k, s, outcome, at) ==
    LET row == cyc[k].rows[s]
        elapsed == at - cyc[k].startTime
        health == fetchMonitorApplicationHealthMap(row, outcome, elapsed)
    IN  IF FetchThrows(outcome)
        THEN Caught([NoTask EXCEPT !.outcome = outcome], "fetch")
        ELSE IF Reportable(isPeriodicWarn(k), row, health)
        THEN [NoTask EXCEPT !.pc = "updating", !.outcome = outcome, !.health = health,
                            !.isHealthy = IF isPeriodicWarn(k) THEN row.is_alive
                                          ELSE NewIsHealthy(row, health),
                            !.isAliveTransitionAt =
                                IF isPeriodicWarn(k) THEN row.is_alive_transition_at
                                ELSE NewTransitionAt(row, health, at),
                            !.updatedAt = at]
        ELSE [NoTask EXCEPT !.pc = "done", !.outcome = outcome, !.health = health]

\* the task's state once the fetch returned: the gate is evaluated at once
Decided(k, s, outcome, at) ==
    LET row == cyc[k].rows[s]
        elapsed == at - cyc[k].startTime
        health == fetchMonitorApplicationHealthMap(row, outcome, elapsed)
    IN  IF FetchThrows(outcome)
        THEN Caught([NoTask EXCEPT !.outcome = outcome], "fetch")
        ELSE IF Reportable(isPeriodicWarn(k), row, health)
        THEN [NoTask EXCEPT !.pc = "updating", !.outcome = outcome, !.health = health,
                            !.isHealthy = NewIsHealthy(row, health),
                            !.isAliveTransitionAt = NewTransitionAt(row, health, at),
                            !.updatedAt = at]
        ELSE [NoTask EXCEPT !.pc = "done", !.outcome = outcome, !.health = health]

FetchReturn(k, s, outcome, at) ==
    /\ ~halted
    /\ cyc[k].phase = "running"
    /\ cyc[k].tasks[s].pc = "fetching"
    /\ (at - cyc[k].startTime >= REQUEST_TIMEOUT) => outcome.kind = "noResponse"
    /\ now' = at
    /\ cyc' = [cyc EXCEPT ![k].tasks[s] = Decided(k, s, outcome, at)]
    /\ UNCHANGED <<db, timer, started, posts, halted, diffVars>>

updateMonitorApplicationClearingSnapshot(row, isAlive, isAliveTransitionAt, updatedAt, responseMap) ==
    [row EXCEPT !.response_map = IF responseMap = Undefined THEN NullV ELSE responseMap,
                !.is_alive = isAlive,
                !.is_alive_transition_at = isAliveTransitionAt,
                !.updated_at = updatedAt]

updateMonitorApplicationSnapshotOnly(row, isAlive, isAliveTransitionAt, updatedAt, responseMap) ==
    [row EXCEPT !.response_map = IF responseMap = Undefined THEN @ ELSE responseMap,
                !.updated_at = updatedAt]

updateMonitorApplicationMerging(row, isAlive, isAliveTransitionAt, updatedAt, responseMap) ==
    [row EXCEPT !.response_map =
                    IF responseMap = Undefined THEN @
                    ELSE MapValue(Spread(PrevMap(@), responseMap.map)),
                !.is_alive = isAlive,
                !.is_alive_transition_at = isAliveTransitionAt,
                !.updated_at = updatedAt]

\* prisma.monitor_applications.update: undefined response_map leaves the column
updateMonitorApplication(row, isAlive, isAliveTransitionAt, updatedAt, responseMap) ==
    [row EXCEPT !.response_map = IF responseMap = Undefined THEN @ ELSE responseMap,
                !.is_alive = isAlive,
                !.is_alive_transition_at = isAliveTransitionAt,
                !.updated_at = updatedAt]

RenderedThenUpdatesAgain(k, s, at) ==
    LET task == cyc[k].tasks[s]
        row == cyc[k].rows[s]
    IN  [task EXCEPT !.renderedAt = at, !.result =
            [isHealthy |-> task.isHealthy,
             messageMap |-> formatMonitorApplicationMessageMap(
                 s, task.health,
                 SinceArgument(isPeriodicWarn(k), row, task.health,
                               task.isAliveTransitionAt),
                 at)]]

\* what processMonitorApplication returns after the update resolved
Rendered(k, s, at) ==
    LET task == cyc[k].tasks[s]
        row == cyc[k].rows[s]
    IN  IF FormatThrows(task.health)
        THEN Caught(task, "format")
        ELSE [task EXCEPT !.pc = "done", !.renderedAt = at, !.result =
                [isHealthy |-> task.isHealthy,
                 messageMap |-> formatMonitorApplicationMessageMap(
                     s, task.health,
                     SinceArgument(isPeriodicWarn(k), row, task.health,
                                   task.isAliveTransitionAt),
                     at)]]

UpdateReturn(k, s, written, at) ==
    /\ ~halted
    /\ cyc[k].phase = "running"
    /\ cyc[k].tasks[s].pc = "updating"
    /\ now' = at
    /\ IF written
       THEN /\ db' = [db EXCEPT ![s] =
                        updateMonitorApplication(@, cyc[k].tasks[s].isHealthy,
                            cyc[k].tasks[s].isAliveTransitionAt,
                            cyc[k].tasks[s].updatedAt,
                            cyc[k].tasks[s].health.responseMap)]
            /\ cyc' = [cyc EXCEPT ![k].tasks[s] =
                        [Rendered(k, s, at) EXCEPT !.over = db[s], !.wrote = db'[s]]]
       ELSE /\ db' = db
            /\ cyc' = [cyc EXCEPT ![k].tasks[s] = Caught(@, "update")]
    /\ UNCHANGED <<timer, started, posts, halted, diffVars>>

-----------------------------------------------------------------------------
(* monitorApplications after Promise.all, and sendApplicationMonitoringReport *)

FilteredListAbortOnError(tasks) ==
    LET all == [s \in Services |-> tasks[s].result]
    IN  IF \E s \in Services : tasks[s].error # "" THEN <<>>
        ELSE SelectSeq(all, LAMBDA r : r # Null)

\* monitorApplicationMapList.filter(map => map !== null), in list order
FilteredList(tasks) ==
    LET all == [s \in Services |-> tasks[s].result]
    IN  SelectSeq(all, LAMBDA r : r # Null)

MessagesOfFirst(list, field) ==
    LET kept == SelectSeq(list, LAMBDA r : Truthy(r.messageMap[field]))
    IN  IF Len(kept) = 0 THEN <<>> ELSE <<kept[1].messageMap[field]>>

\* message && list.push(message), for each map of the list in turn
Messages(list, field) ==
    LET kept == SelectSeq(list, LAMBDA r : Truthy(r.messageMap[field]))
    IN  [i \in DOMAIN kept |-> kept[i].messageMap[field]]

Buckets(tasks) ==
    LET list == FilteredList(tasks)
        healthy == SelectSeq(list, LAMBDA r : r.isHealthy)
        unhealthy == SelectSeq(list, LAMBDA r : ~r.isHealthy)
    IN  [online |-> [i \in DOMAIN healthy |->
                        healthy[i].messageMap.propertyRetentionMessage],
         offline |-> [i \in DOMAIN unhealthy |->
                        unhealthy[i].messageMap.propertyRetentionMessage],
         added |-> Messages(healthy, "propertyAddedMessage"),
         modified |-> Messages(healthy, "propertyModifiedMessage"),
         removed |-> Messages(healthy, "propertyRemovedMessage")]

Sizes(b) ==
    [online |-> Len(b.online), offline |-> Len(b.offline), added |-> Len(b.added),
     modified |-> Len(b.modified), removed |-> Len(b.removed)]

SkipsWhenAnyEmpty(b) ==
    \/ Len(b.online) = 0
    \/ Len(b.offline) = 0
    \/ Len(b.added) = 0
    \/ Len(b.modified) = 0
    \/ Len(b.removed) = 0

\* the early return of sendApplicationMonitoringReport
SkipsReport(b) ==
    /\ Len(b.online) = 0
    /\ Len(b.offline) = 0
    /\ Len(b.added) = 0
    /\ Len(b.modified) = 0
    /\ Len(b.removed) = 0

SectionAlways(title, list) ==
    <<[title |-> title, count |-> Len(list), body |-> list]>>

\* list.length > 0 && `title (${ list.length }) ... ${ list.join(...) }`, as
\* filter(Boolean) keeps it: one section, or none
Section(title, list) ==
    IF Len(list) > 0
    THEN <<[title |-> title, count |-> Len(list), body |-> list]>>
    ELSE <<>>

\* the message of sendApplicationMonitoringReport: the heading, the sections
\* in the order of the array, and the line naming the server
ReportMessage(b) ==
    [t |-> "string",
     heading |-> "MONITOR DE SERVICOS",
     sections |-> Section("SERVICO ONLINE", b.online)
                  \o Section("SERVICO OFFLINE", b.offline)
                  \o Section("PROP. ADICIONADA", b.added)
                  \o Section("PROP. MODIFICADA", b.modified)
                  \o Section("PROP. REMOVIDA", b.removed),
     footer |-> <<[label |-> "Servidor", value |-> "SERVER_IP"]>>]

\* a report handed to the chat API: the five lists it was built from, its
\* message, and how many calls of processMonitorApplication the cycle made
Post(b, tasks) ==
    [lists |-> b, message |-> ReportMessage(b),
     evaluated |-> Cardinality({s \in Services : tasks[s].pc = "done"})]

AnySettled(k) ==
    \E s \in Services : cyc[k].tasks[s].pc \in {"none", "done"}

\* await Promise.all(...): no call of processMonitorApplication rejects, so
\* the promise settles when the last call has returned
AllSettled(k) ==
    \A s \in Services : cyc[k].tasks[s].pc \in {"none", "done"}

\* every task settled: the buckets are filled and the report is sent without
\* being awaited; the handler returns and the interval arms its timeout
Join(k) ==
    /\ ~halted
    /\ cyc[k].phase = "running"
    /\ AllSettled(k)
    /\ LET b == Buckets(cyc[k].tasks)
       IN  /\ cyc' = [cyc EXCEPT ![k] =
                        [IdleCycle EXCEPT !.sizes = Sizes(b),
                            !.failed = Cardinality({s \in Services :
                                            cyc[k].tasks[s].error # ""}),
                            !.delivers = IF SkipsReport(b) THEN 0 ELSE 1]]
           /\ posts' = IF SkipsReport(b) THEN posts
                       ELSE Append(posts, Post(b, cyc[k].tasks))
    /\ timer' = IF k = "interval" THEN now + MONITORING_INTERVAL ELSE timer
    /\ UNCHANGED <<db, now, started, halted, diffVars>>

\* the post of the report settles. sendApplicationMonitoringReport has no
\* catch and its promise is not awaited, so a rejection reaches no handler:
\* the runtime raises it as an uncaught error and the process ends
DeliverReturn(i, sent) ==
    /\ ~halted
    /\ i \in DOMAIN posts
    /\ posts' = SubSeq(posts, 1, i - 1) \o SubSeq(posts, i + 1, Len(posts))
    /\ halted' = ~sent
    /\ UNCHANGED <<db, now, cyc, timer, started, diffVars>>

Next ==
    \/ \E k \in Triggers, loaded \in BOOLEAN, at \in Later :
            StartCycle(k, loaded, at, FALSE)
    \/ \E k \in Triggers, s \in Services, outcome \in Outcomes, at \in Later :
            FetchReturn(k, s, outcome, at)
    \/ \E k \in Triggers, s \in Services, written \in BOOLEAN, at \in Later :
            UpdateReturn(k, s, written, at)
    \/ \E k \in Triggers : Join(k)
    \/ \E i \in 1..MaxCycles, sent \in BOOLEAN : DeliverReturn(i, sent)

Spec == Init /\ [][Next]_vars

SpecCycle == InitCycle /\ [][Next]_vars

\* the scheduled job may fire while an interval cycle runs, and the reverse
NextOverlap ==
    \/ \E k \in Triggers, loaded \in BOOLEAN, at \in Later :
            StartCycle(k, loaded, at, TRUE)
    \/ \E k \in Triggers, s \in Services, outcome \in Outcomes, at \in Later :
            FetchReturn(k, s, outcome, at)
    \/ \E k \in Triggers, s \in Services, written \in BOOLEAN, at \in Later :
            UpdateReturn(k, s, written, at)
    \/ \E k \in Triggers : Join(k)
    \/ \E i \in 1..MaxCycles, sent \in BOOLEAN : DeliverReturn(i, sent)

SpecOverlap == Init /\ [][NextOverlap]_vars

-----------------------------------------------------------------------------
(* Properties of one call of processMonitorApplication.                    *)

\* the calls that have returned in a cycle still running
Returned == {c \in Triggers \X Services :
                cyc[c[1]].phase = "running" /\ cyc[c[1]].tasks[c[2]].pc = "done"}

TaskOf(c) == cyc[c[1]].tasks[c[2]]
RowOf(c) == cyc[c[1]].rows[c[2]]

\* the fetch returned a health map
Fetched(c) == TaskOf(c).health # Null

\* the fetched reachability differs from the is_alive the cycle read
Differs(c) == TaskOf(c).health.isHealthy # RowOf(c).is_alive

NoDelta(c) ==
    /\ ~hasPropertyAdded(TaskOf(c).health)
    /\ ~hasPropertyModified(TaskOf(c).health)
    /\ ~hasPropertyRemoved(TaskOf(c).health)

\* the update of the call was written
Written(c) == TaskOf(c).wrote # Null

\* the row as the call left it: what its update wrote, else what it read
RowAfter(c) == IF Written(c) THEN TaskOf(c).wrote ELSE RowOf(c)

\* is_alive as the call left it differs from the is_alive it read
Flipped(c) == RowAfter(c).is_alive # RowOf(c).is_alive

\* C1 as stated: in every cycle the persisted is_alive is changed iff the
\* fetched reachability differs from the is_alive the cycle read, and
\* is_alive_transition_at is changed (to the time of the update) iff
\* is_alive was flipped by that same update.
C1_FlipIffDiffers ==
    \A c \in Returned :
        Fetched(c) =>
            /\ Flipped(c) <=> Differs(c)
            /\ RowAfter(c).is_alive_transition_at =
                  IF Flipped(c) THEN TaskOf(c).updatedAt
                  ELSE RowOf(c).is_alive_transition_at

\* C1 amended: an update that is written changes is_alive iff the fetched
\* reachability differs from the is_alive the cycle read, and sets
\* is_alive_transition_at to the time of the update iff it flipped is_alive,
\* writing back the value read otherwise; when the update is rejected the
\* row keeps what it had although the reachability differs.
C1_FlipIffDiffersWhenWritten ==
    \A c \in Returned :
        Fetched(c) =>
            /\ Written(c) => (Flipped(c) <=> Differs(c))
            /\ ~Written(c) => ~Flipped(c)
            /\ (Differs(c) /\ ~Written(c)) => TaskOf(c).error = "update"
            /\ RowAfter(c).is_alive_transition_at =
                  IF Flipped(c) THEN TaskOf(c).updatedAt
                  ELSE RowOf(c).is_alive_transition_at

C1_Witness ==
    \E c \in Returned :
        /\ Fetched(c)
        /\ Written(c)
        /\ Differs(c)
        /\ Flipped(c)
        /\ db[c[2]] = TaskOf(c).wrote
        /\ db[c[2]].is_alive_transition_at > RowOf(c).is_alive_transition_at

\* C6: on a change-driven tick a service whose fetched reachability equals
\* its stored is_alive and whose diff has nothing added, modified or removed
\* yields null, and no update is issued for it.
C6_UnchangedYieldsNull ==
    \A c \in Returned :
        (~isPeriodicWarn(c[1]) /\ Fetched(c) /\ ~Differs(c) /\ NoDelta(c)) =>
            /\ TaskOf(c).result = Null
            /\ ~Written(c)
            /\ TaskOf(c).error = ""

C6_Witness ==
    \E c \in Returned :
        /\ ~isPeriodicWarn(c[1])
        /\ Fetched(c) /\ ~Differs(c) /\ NoDelta(c)
        /\ TaskOf(c).outcome.kind = "monitor"
        /\ RowOf(c).response_map # NullV
        /\ TaskOf(c).result = Null

\* C7 as stated: on a periodic tick every active service yields a non-null
\* render, also when nothing changed.
C7_PeriodicAlwaysRenders ==
    \A c \in Returned : isPeriodicWarn(c[1]) => TaskOf(c).result # Null

\* C9 as stated: when the gateway answers without an entry for the service
\* (or the named api cannot be resolved), the service counts as unreachable:
\* a service stored as alive is flipped to dead, persisted, and rendered for
\* the offline list.
C9_MissingEntryIsUnreachable ==
    \A c \in Returned :
        (TaskOf(c).outcome.kind \in {"noApi", "noSubResponse"} /\ RowOf(c).is_alive) =>
            /\ Written(c)
            /\ ~TaskOf(c).wrote.is_alive
            /\ TaskOf(c).result # Null
            /\ ~TaskOf(c).result.isHealthy

\* the render announces a flip from dead to alive
AnnouncesRevival(c) ==
    /\ TaskOf(c).result # Null
    /\ ~RowOf(c).is_alive
    /\ TaskOf(c).health.isHealthy

SinceOf(c) == TaskOf(c).result.messageMap.propertyRetentionMessage.since

\* C10 as stated: the render announcing that a service dead since T0 is
\* alive again carries a since-line of now minus T0, T0 being the
\* transition timestamp stored before the cycle.
C10_SinceStoredTransition ==
    \A c \in Returned :
        AnnouncesRevival(c) =>
            /\ SinceOf(c) # Undefined
            /\ SinceOf(c).desde
                  = formatDuration(TaskOf(c).renderedAt - RowOf(c).is_alive_transition_at)

\* C10 amended: that render carries a since-line whose duration runs from
\* the transition timestamp this cycle has just written (the time of the
\* update) to the time of the render, not from T0.
C10_SinceNewTransition ==
    \A c \in Returned :
        AnnouncesRevival(c) =>
            /\ SinceOf(c) # Undefined
            /\ SinceOf(c).desde
                  = formatDuration(TaskOf(c).renderedAt - TaskOf(c).updatedAt)
            /\ TaskOf(c).wrote.is_alive_transition_at = TaskOf(c).updatedAt

C10_Witness ==
    \E c \in Returned :
        /\ AnnouncesRevival(c)
        /\ TaskOf(c).updatedAt - RowOf(c).is_alive_transition_at >= MsPerMinute
        /\ SinceOf(c).desde = <<Part(0, "m")>>
        /\ hasPropertyModified(TaskOf(c).health)

\* C14 as stated: the fetch returns a health map whatever goes wrong inside
\* it: a request that fails, a lookup of the api that fails or finds nothing
\* and a response without the api's entry all yield isHealthy false together
\* with the response time.
C14_FetchAlwaysReturns ==
    \A c \in Returned :
        TaskOf(c).outcome.kind \in {"noResponse", "lookupError", "noApi", "noSubResponse"} =>
            /\ Fetched(c)
            /\ ~TaskOf(c).health.isHealthy
            /\ "responseTime" \in Keys(TaskOf(c).health.propertyRetentionMap)

\* the keys of the snapshot stored for the service of call c
StoredKeys(c) == Keys(PrevMap(db[c[2]].response_map))

\* the fetch of call c returned a monitor map
FetchedMap(c) == Fetched(c) /\ TaskOf(c).outcome.kind = "monitor"

\* C18 as stated: once a call whose fetch returned a monitor map is over,
\* the keys of the stored snapshot are among the keys of that map.
C18_SnapshotKeysPruned ==
    \A c \in Returned :
        FetchedMap(c) => StoredKeys(c) \subseteq Keys(TaskOf(c).outcome.monitor)

\* C18 amended: once a call whose fetch returned a monitor map is over and
\* its update was not rejected, the keys of the stored snapshot are among
\* the keys of that map (they are those keys when an update was written);
\* a rejected update leaves the snapshot, stale keys included, as it was.
C18_SnapshotKeysPrunedUnlessRejected ==
    \A c \in Returned :
        FetchedMap(c) =>
            /\ TaskOf(c).error # "update" =>
                  StoredKeys(c) \subseteq Keys(TaskOf(c).outcome.monitor)
            /\ Written(c) =>
                  db[c[2]].response_map = MapValue(TaskOf(c).outcome.monitor)
            /\ TaskOf(c).error = "update" => db[c[2]] = RowOf(c)

C18_Witness ==
    \E c \in Returned :
        /\ FetchedMap(c)
        /\ Written(c)
        /\ "label" \in Keys(PrevMap(RowOf(c).response_map))
        /\ "label" \notin Keys(TaskOf(c).outcome.monitor)
        /\ StoredKeys(c) = Keys(TaskOf(c).outcome.monitor)

\* the lists the cycle of call c would build hold a message of its service
InLists(c) ==
    \E i \in DOMAIN FilteredList(cyc[c[1]].tasks) :
        FilteredList(cyc[c[1]].tasks)[i].messageMap.propertyRetentionMessage.header = c[2]

\* C12: a call whose update is rejected returns null, so its service has no
\* entry in the lists of the cycle's report, and the row keeps the is_alive,
\* is_alive_transition_at and response_map the cycle read.
C12_RejectedUpdateLeavesRow ==
    \A c \in Returned :
        TaskOf(c).error = "update" =>
            /\ TaskOf(c).result = Null
            /\ ~InLists(c)
            /\ ~Written(c)
            /\ db[c[2]] = RowOf(c)

C12_Witness ==
    \E c \in Returned :
        /\ TaskOf(c).error = "update"
        /\ Differs(c)
        /\ hasPropertyModified(TaskOf(c).health)
        /\ ~InLists(c)
        /\ db[c[2]] = RowOf(c)

-----------------------------------------------------------------------------
(* Properties of one cycle.                                                *)

\* C8: a cycle calls the chat API once if any of its five lists has an
\* entry, and not at all if all five are empty.
C8_DeliverIffNonEmpty ==
    \A k \in Triggers :
        cyc[k].phase = "idle" =>
            cyc[k].delivers =
                IF \/ cyc[k].sizes.online > 0
                   \/ cyc[k].sizes.offline > 0
                   \/ cyc[k].sizes.added > 0
                   \/ cyc[k].sizes.modified > 0
                   \/ cyc[k].sizes.removed > 0
                THEN 1 ELSE 0

C8_Witness ==
    /\ cyc["interval"].phase = "idle"
    /\ cyc["interval"].sizes.online = 1
    /\ cyc["interval"].sizes.offline = 1
    /\ cyc["interval"].sizes.added = 1
    /\ cyc["interval"].sizes.modified = 0
    /\ cyc["interval"].sizes.removed = 1
    /\ cyc["interval"].delivers = 1
    /\ Len(posts) = 1

\* the cycle of trigger k ends in this step
Ends(k) == cyc[k].phase = "running" /\ cyc'[k].phase = "idle"

\* the services whose call returned a render in the cycle of trigger k
RenderedIn(k) == {s \in Services : cyc[k].tasks[s].result # Null}

\* the retention message of service s is in the online or the offline list
\* of the report
Reports(post, s) ==
    \E i \in DOMAIN (post.lists.online \o post.lists.offline) :
        (post.lists.online \o post.lists.offline)[i].header = s

\* C11: whatever stage failed for some services of a cycle, when the cycle
\* ends every active service it read has been evaluated, and the render of
\* every service that has one is in the report the cycle sends.
C11_FailureIsolated ==
    [][\A k \in Triggers :
          Ends(k) =>
              /\ \A s \in Services :
                    cyc[k].rows[s] # Null => cyc[k].tasks[s].pc = "done"
              /\ cyc'[k].sizes.online + cyc'[k].sizes.offline
                    = Cardinality(RenderedIn(k))
              /\ RenderedIn(k) # {} =>
                    /\ Len(posts') = Len(posts) + 1
                    /\ \A s \in RenderedIn(k) : Reports(posts'[Len(posts')], s)]_vars

C11_Witness ==
    \E k \in Triggers :
        /\ cyc[k].phase = "idle"
        /\ cyc[k].failed = 1
        /\ cyc[k].sizes.online + cyc[k].sizes.offline = 1
        /\ cyc[k].delivers = 1
        /\ Len(posts) = 1
        /\ posts[1].evaluated = 2

\* the call of every active service the cycle of trigger k read has returned
AllReturned(k) ==
    \A s \in Services : cyc[k].rows[s] # Null => cyc[k].tasks[s].pc = "done"

\* C15: a cycle fills its lists and hands its report to the chat API only in
\* the step in which it ends, and it ends only when the call of every active
\* service it read has returned, with a render, with null or through the
\* catch.
C15_ReportAfterAllTasks ==
    [][/\ \A k \in Triggers : Ends(k) => AllReturned(k)
       /\ Len(posts') > Len(posts) =>
             \E k \in Triggers :
                 /\ Ends(k)
                 /\ AllReturned(k)
                 /\ posts'[Len(posts')].evaluated
                       = Cardinality({s \in Services : cyc[k].rows[s] # Null})]_vars

C15_Witness ==
    /\ Len(posts) = 1
    /\ posts[1].evaluated = NumServices
    /\ Len(posts[1].lists.online) = 1
    /\ Len(posts[1].lists.offline) = NumServices - 1
    /\ \A k \in Triggers : cyc[k].phase = "idle"

\* the five lists in the order the report is to show them, and their titles
ListOrder == <<"online", "offline", "added", "modified", "removed">>

TitleOf ==
    [online |-> "SERVICO ONLINE", offline |-> "SERVICO OFFLINE",
     added |-> "PROP. ADICIONADA", modified |-> "PROP. MODIFICADA",
     removed |-> "PROP. REMOVIDA"]

\* the titles of the lists that are not empty, in that order
TitlesDue(lists) ==
    LET due == SelectSeq(ListOrder, LAMBDA l : Len(lists[l]) > 0)
    IN  [i \in DOMAIN due |-> TitleOf[due[i]]]

\* C16: in every report handed to the chat API the sections are those of the
\* lists that are not empty, in the order online, offline, added, modified,
\* removed, and each section's title carries the length of its list and its
\* body the list's messages.
C16_SectionsInOrder ==
    \A p \in DOMAIN posts :
        /\ [i \in DOMAIN posts[p].message.sections |->
                posts[p].message.sections[i].title] = TitlesDue(posts[p].lists)
        /\ \A i \in DOMAIN posts[p].message.sections :
              \A l \in DOMAIN TitleOf :
                  posts[p].message.sections[i].title = TitleOf[l] =>
                      /\ posts[p].message.sections[i].count = Len(posts[p].lists[l])
                      /\ posts[p].message.sections[i].body = posts[p].lists[l]

C16_Witness ==
    \E p \in DOMAIN posts :
        /\ Len(posts[p].message.sections) = 4
        /\ posts[p].message.sections[1].title = "SERVICO ONLINE"
        /\ posts[p].message.sections[2].title = "SERVICO OFFLINE"
        /\ posts[p].message.sections[3].title = "PROP. ADICIONADA"
        /\ posts[p].message.sections[4].title = "PROP. REMOVIDA"
        /\ posts[p].message.sections[1].count = 1
        /\ Len(posts[p].lists.modified) = 0

\* C17 as stated: every report handed to the chat API ends with lines that
\* name the server and state how many services the cycle evaluated.
C17_FooterNamesHostAndTotal ==
    \A p \in DOMAIN posts :
        /\ \E i \in DOMAIN posts[p].message.footer :
              posts[p].message.footer[i].label = "Servidor"
        /\ \E i \in DOMAIN posts[p].message.footer :
              /\ posts[p].message.footer[i].label = "Total monitorado"
              /\ posts[p].message.footer[i].value = posts[p].evaluated

\* the update of call c replaced a row that another cycle had written since
\* call c's cycle read it
Stale(c) ==
    \/ TaskOf(c).over.is_alive # RowOf(c).is_alive
    \/ TaskOf(c).over.is_alive_transition_at # RowOf(c).is_alive_transition_at
    \/ TaskOf(c).over.response_map # RowOf(c).response_map

\* the update of call c put back the is_alive its cycle had read over a flip
\* written in between
Reverts(c) ==
    /\ TaskOf(c).over.is_alive # RowOf(c).is_alive
    /\ TaskOf(c).wrote.is_alive = RowOf(c).is_alive

\* C19 as stated: when cycles overlap, no update is computed from a row read
\* before another cycle wrote to it, so no update puts pre-flip values back
\* over a flip another cycle has written.
C19_NoStaleWrite ==
    \A c \in Returned : Written(c) => (~Stale(c) /\ ~Reverts(c))

\* C13 as stated: a failure of the post to the chat API is caught inside the
\* cycle; it never leaves it as an unhandled rejection, and later cycles run.
C13_DeliverFailureContained == ~halted

-----------------------------------------------------------------------------
(* SpecDiff: the differ on every stored snapshot and fetched map of the    *)
(* domain below.                                                           *)

DiffKeys == {"a", "responseTime"}
DiffValues == {Undefined, Num(1), Num(2), ObjX(1), ObjX(2)}

\* what a monitor map may hold under a key: a property object, or any other
\* JSON value (null, a falsy number, a string)
DiffProperties ==
    [t : {"object"}, name : {"n"}, value : DiffValues,
     isListeningModifiedEvent : BOOLEAN]
    \cup {NullV, Num(0), Str("s")}

DiffEntries == {Entry(k, p) : k \in DiffKeys, p \in DiffProperties}

DiffMaps ==
    {m \in UNION {[1..n -> DiffEntries] : n \in 0..MaxProps} :
        \A i, j \in DOMAIN m : i # j => m[i].k # m[j].k}

DiffElapsed == 5

MainIdle ==
    /\ db = <<>>
    /\ now = 0
    /\ cyc = <<>>
    /\ timer = -1
    /\ started = 0
    /\ posts = <<>>
    /\ halted = FALSE

InitDiff ==
    /\ MainIdle
    /\ dPrevious \in {MapValue(m) : m \in DiffMaps} \cup {NullV}
    /\ dCurrent \in DiffMaps
    /\ dHealth = Null
    /\ tElapsed = 0
    /\ tText = <<>>

ApplyDiffer ==
    /\ dHealth = Null
    /\ dHealth' = Differ(dPrevious, dCurrent, DiffElapsed)
    /\ UNCHANGED <<mainVars, dPrevious, dCurrent, tElapsed, tText>>

NextDiff == ApplyDiffer

SpecDiff == InitDiff /\ [][NextDiff]_vars

Differed == dHealth # Null
AddedKeys == Keys(dHealth.propertyAddedMap.map)
ModifiedKeys == Keys(dHealth.propertyModifiedMap.map)
RemovedKeys == Range(dHealth.propertyRemovedSet.set)
\* the retained keys, the synthetic responseTime entry left out
RetainedKeys == Keys(dHealth.propertyRetentionMap) \ {"responseTime"}
RetainedKeysAll == Keys(dHealth.propertyRetentionMap)

\* C2: for every previous snapshot (null included) and every current map,
\* the added, modified and retained key sets are pairwise disjoint and,
\* the synthetic responseTime entry aside, their union is keys(current)
\* (falsy and non-object property values and a payload key named
\* responseTime included).
C2_DisjointPartition ==
    Differed =>
        /\ AddedKeys \cap ModifiedKeys = {}
        /\ AddedKeys \cap RetainedKeys = {}
        /\ ModifiedKeys \cap RetainedKeys = {}
        /\ (AddedKeys \cup ModifiedKeys \cup RetainedKeys) \ {"responseTime"}
               = Keys(dCurrent) \ {"responseTime"}

\* a key of both maps whose current property has its flag off
Unwatched(e) ==
    /\ e.k \in ResponseMapKeySet(dPrevious)
    /\ isObjectType(e.v)
    /\ ~e.v.isListeningModifiedEvent

\* C3: a property of the current payload, known to the previous snapshot,
\* whose watch-for-change flag is false is never classified modified,
\* whatever its current and previous values: its key is retained.
C3_UnwatchedNeverModified ==
    Differed =>
        \A i \in DOMAIN dCurrent :
            Unwatched(dCurrent[i]) =>
                /\ dCurrent[i].k \notin ModifiedKeys
                /\ dCurrent[i].k \in RetainedKeysAll

C3_Witness ==
    /\ Differed
    /\ \E i \in DOMAIN dCurrent :
          /\ Unwatched(dCurrent[i])
          /\ dCurrent[i].v.value = Num(2)
          /\ OptValue(Get(dPrevious.map, dCurrent[i].k)) = Num(1)
          /\ dCurrent[i].k \in RetainedKeysAll

\* C4: the removed set is exactly keys(previous) minus keys(current),
\* whatever the property values, and is empty for a null snapshot.
C4_RemovedExact ==
    Differed =>
        RemovedKeys =
            IF dPrevious = NullV THEN {}
            ELSE {k \in DiffKeys : k \in Keys(dPrevious.map) /\ k \notin Keys(dCurrent)}

C4_Witness ==
    /\ Differed
    /\ dPrevious # NullV
    /\ RemovedKeys = {"a"}
    /\ "responseTime" \in Keys(dCurrent)
    /\ Get(dCurrent, "responseTime") = Num(0)

\* C5: with a null stored snapshot every key of the current payload is
\* added, and the modified and removed sets are empty.
C5_NullSnapshotAllAdded ==
    (Differed /\ dPrevious = NullV) =>
        /\ AddedKeys = Keys(dCurrent)
        /\ Len(dHealth.propertyAddedMap.map) = Len(dCurrent)
        /\ dHealth.propertyModifiedMap.map = <<>>
        /\ dHealth.propertyRemovedSet.set = <<>>

C5_Witness ==
    /\ Differed
    /\ dPrevious = NullV
    /\ Len(dCurrent) = MaxProps
    /\ AddedKeys = DiffKeys

\* the value the stored snapshot holds under the key of entry e
OldValue(e) == OptValue(Get(PrevMap(dPrevious), e.k))

\* the property of entry e is watched, has a value, and the value is not,
\* field by field, the stored one
WatchedAndChanged(e) ==
    /\ isObjectType(e.v)
    /\ e.v.isListeningModifiedEvent
    /\ e.v.value # Undefined
    /\ e.v.value # OldValue(e)

\* C20: a key of both the stored snapshot and the current map is in the
\* modified map, with its current property, iff that property's flag is
\* true, its value is not undefined, and its value differs structurally from
\* the stored value; two equal objects are not a modification.
C20_ModifiedIffWatchedAndChanged ==
    Differed =>
        \A i \in DOMAIN dCurrent :
            dCurrent[i].k \in ResponseMapKeySet(dPrevious) =>
                /\ dCurrent[i].k \in ModifiedKeys <=> WatchedAndChanged(dCurrent[i])
                /\ dCurrent[i].k \in ModifiedKeys =>
                      Get(dHealth.propertyModifiedMap.map, dCurrent[i].k) = dCurrent[i].v

C20_Witness ==
    /\ Differed
    /\ \E i \in DOMAIN dCurrent :
          /\ dCurrent[i].k \in ResponseMapKeySet(dPrevious)
          /\ isObjectType(dCurrent[i].v)
          /\ dCurrent[i].v.isListeningModifiedEvent
          /\ dCurrent[i].v.value = ObjX(1)
          /\ OldValue(dCurrent[i]) = ObjX(1)
          /\ dCurrent[i].k \notin ModifiedKeys
    /\ \E j \in DOMAIN dCurrent :
          /\ dCurrent[j].k \in ModifiedKeys
          /\ dCurrent[j].v.value = ObjX(2)
          /\ OldValue(dCurrent[j]) = ObjX(1)

\* C21: the retained map of the health map always holds the synthetic
\* responseTime entry carrying the measured latency, and that entry is the
\* last entry of the map, also when the payload itself has a key named
\* responseTime.
C21_ResponseTimeLast ==
    Differed =>
        LET retained == dHealth.propertyRetentionMap
        IN  /\ Len(retained) > 0
            /\ retained[Len(retained)] = defaultRetentionMap(DiffElapsed)[1]

-----------------------------------------------------------------------------
(* Further properties of one call of processMonitorApplication.            *)

\* the update of the call was issued: it was written, or it was rejected
Issued(c) == Written(c) \/ TaskOf(c).error = "update"

Holds(row, c) ==
    /\ row.is_alive = TaskOf(c).health.isHealthy
    /\ TaskOf(c).health.responseMap # Undefined
            => row.response_map = TaskOf(c).health.responseMap

\* C23: after a cycle has reported a service and its update was written,
\* the next change-driven cycle, when it fetches the same reachability and
\* the same payload, returns null for that service. The row is all that
\* one cycle hands to the next, so: a reporting call leaves the row holding
\* what it fetched, and a change-driven call that reads a row holding what
\* it fetches issues no update and returns null.
C23_NoDoubleReport ==
    \A c \in Returned :
        /\ (Written(c) /\ TaskOf(c).result # Null) => Holds(RowAfter(c), c)
        /\ (~isPeriodicWarn(c[1]) /\ Fetched(c) /\ Holds(RowOf(c), c))
                => (TaskOf(c).result = Null /\ ~Issued(c))

\* the second cycle, change-driven, reads the row the first cycle wrote when
\* it reported, fetches what that row holds and returns null
C23_Witness ==
    \E c \in Returned :
        /\ started = 2
        /\ Len(posts) = 1
        /\ ~isPeriodicWarn(c[1])
        /\ Fetched(c)
        /\ TaskOf(c).outcome.kind = "monitor"
        /\ RowOf(c).updated_at > 0
        /\ RowOf(c).response_map = TaskOf(c).health.responseMap
        /\ RowOf(c).response_map # MapValue(StoredMap)
        /\ TaskOf(c).result = Null

-----------------------------------------------------------------------------
(* The flow of src/services/monitorApplications.service.ts: the row has the *)
(* column is_alive_transition_notified_by_monitor and no snapshot, the      *)
(* report has two lists and its post is awaited inside a try.               *)

LegacyRows ==
    [is_alive : BOOLEAN,
     is_alive_transition_notified_by_monitor : BOOLEAN,
     is_alive_transition_at : {0},
     is_monitor_application_active : {TRUE}]

InitLegacy ==
    /\ db \in [{1} -> LegacyRows]
    /\ Booted
    /\ now = 0
    /\ started = 0

\* isHealthy of the health map: false on the early returns, subResponse.status
\* without a monitor map, true with one; data holds the lines of the message
LegacyHealthMap(outcome, elapsed) ==
    [isHealthy |-> CASE outcome.kind = "monitor" -> TRUE
                     [] outcome.kind = "status" -> outcome.status
                     [] OTHER -> FALSE,
     data |-> IF outcome.kind = "monitor"
              THEN Assign(outcome.monitor, "responseTime",
                          defaultRetentionMap(elapsed)[1].v)
              ELSE defaultRetentionMap(elapsed)]

\* the text of one service: the time since isAliveTransitionAt and one line
\* for each value of the health map's data
formatMonitorApplicationInformation(health, isAliveTransitionAt, at) ==
    [since |-> (at - isAliveTransitionAt) \div MsPerMinute,
     lines |-> [i \in DOMAIN health.data |-> NameOf(health.data[i].v)]]

updateMonitorApplicationAliveStatusKeepingFlag(row, isAlive, isAliveTransitionAt) ==
    [row EXCEPT !.is_alive = isAlive,
                !.is_alive_transition_at = isAliveTransitionAt]

updateMonitorApplicationAliveStatus(row, isAlive, isAliveTransitionAt) ==
    [row EXCEPT !.is_alive = isAlive,
                !.is_alive_transition_notified_by_monitor = TRUE,
                !.is_alive_transition_at = isAliveTransitionAt]

\* the task's state once the fetch returned: the periodic tick renders the
\* stored state and writes nothing; the change-driven tick updates on a flip
\* to up, on a flip to down, or on a transition not yet notified
LegacyDecided(k, s, outcome, at) ==
    LET row == cyc[k].rows[s]
        health == LegacyHealthMap(outcome, at - cyc[k].startTime)
        fetched == [NoTask EXCEPT !.outcome = outcome, !.health = health]
    IN  IF FetchThrows(outcome)
        THEN Caught([NoTask EXCEPT !.outcome = outcome], "fetch")
        ELSE IF isPeriodicWarn(k)
        THEN [fetched EXCEPT !.pc = "done", !.renderedAt = at, !.result =
                [isHealthy |-> row.is_alive,
                 information |-> formatMonitorApplicationInformation(
                                     health, row.is_alive_transition_at, at)]]
        ELSE IF health.isHealthy /\ ~row.is_alive
        THEN [fetched EXCEPT !.pc = "updating", !.isHealthy = TRUE,
                             !.isAliveTransitionAt = at, !.updatedAt = at]
        ELSE IF ~health.isHealthy /\ row.is_alive
        THEN [fetched EXCEPT !.pc = "updating", !.isHealthy = FALSE,
                             !.isAliveTransitionAt = at, !.updatedAt = at]
        ELSE IF ~row.is_alive_transition_notified_by_monitor
        THEN [fetched EXCEPT !.pc = "updating", !.isHealthy = row.is_alive,
                             !.isAliveTransitionAt = row.is_alive_transition_at,
                             !.updatedAt = at]
        ELSE [fetched EXCEPT !.pc = "done"]

LegacyFetchReturn(k, s, outcome, at) ==
    /\ cyc[k].phase = "running"
    /\ cyc[k].tasks[s].pc = "fetching"
    /\ (at - cyc[k].startTime >= REQUEST_TIMEOUT) => outcome.kind = "noResponse"
    /\ now' = at
    /\ cyc' = [cyc EXCEPT ![k].tasks[s] = LegacyDecided(k, s, outcome, at)]
    /\ UNCHANGED <<db, timer, started, posts, halted, diffVars>>

LegacyUpdateReturn(k, s, written, at) ==
    /\ cyc[k].phase = "running"
    /\ cyc[k].tasks[s].pc = "updating"
    /\ now' = at
    /\ IF written
       THEN /\ db' = [db EXCEPT ![s] =
                        updateMonitorApplicationAliveStatus(@,
                            cyc[k].tasks[s].isHealthy,
                            cyc[k].tasks[s].isAliveTransitionAt)]
            /\ cyc' = [cyc EXCEPT ![k].tasks[s] =
                        [@ EXCEPT !.pc = "done", !.renderedAt = at,
                            !.over = db[s], !.wrote = db'[s],
                            !.result =
                                [isHealthy |-> cyc[k].tasks[s].isHealthy,
                                 information |->
                                     formatMonitorApplicationInformation(
                                         cyc[k].tasks[s].health,
                                         cyc[k].tasks[s].isAliveTransitionAt, at)]]]
       ELSE /\ db' = db
            /\ cyc' = [cyc EXCEPT ![k].tasks[s] = Caught(@, "update")]
    /\ UNCHANGED <<timer, started, posts, halted, diffVars>>

\* the two lists of monitorApplications and the message of sendMonitoringReport
LegacyPost(tasks) ==
    LET list == FilteredList(tasks)
        healthy == SelectSeq(list, LAMBDA r : r.isHealthy)
        unhealthy == SelectSeq(list, LAMBDA r : ~r.isHealthy)
    IN  [online |-> [i \in DOMAIN healthy |-> healthy[i].information],
         offline |-> [i \in DOMAIN unhealthy |-> unhealthy[i].information],
         total |-> Len(healthy) + Len(unhealthy)]

\* every task settled: with both lists empty sendMonitoringReport returns at
\* once and the handler ends; else the report is posted and awaited
LegacyJoin(k) ==
    /\ cyc[k].phase = "running"
    /\ AllSettled(k)
    /\ LET post == LegacyPost(cyc[k].tasks)
       IN  IF post.total = 0
           THEN /\ cyc' = [cyc EXCEPT ![k] = IdleCycle]
                /\ posts' = posts
                /\ timer' = IF k = "interval" THEN now + MONITORING_INTERVAL ELSE timer
           ELSE /\ cyc' = [cyc EXCEPT ![k] = [IdleCycle EXCEPT !.phase = "sending"]]
                /\ posts' = Append(posts, post)
                /\ timer' = timer
    /\ UNCHANGED <<db, now, started, halted, diffVars>>

\* the post settles: a rejection is caught and logged, the handler ends
LegacyDeliverReturn(k, sent, at) ==
    /\ cyc[k].phase = "sending"
    /\ now' = at
    /\ cyc' = [cyc EXCEPT ![k] = [IdleCycle EXCEPT !.delivers = IF sent THEN 1 ELSE 0]]
    /\ posts' = <<>>
    /\ timer' = IF k = "interval" THEN at + MONITORING_INTERVAL ELSE timer
    /\ UNCHANGED <<db, started, halted, diffVars>>

NextLegacy ==
    \/ \E k \in Triggers, loaded \in BOOLEAN, at \in Later :
            StartCycle(k, loaded, at, FALSE)
    \/ \E k \in Triggers, s \in Services, outcome \in Outcomes, at \in Later :
            LegacyFetchReturn(k, s, outcome, at)
    \/ \E k \in Triggers, s \in Services, written \in BOOLEAN, at \in Later :
            LegacyUpdateReturn(k, s, written, at)
    \/ \E k \in Triggers : LegacyJoin(k)
    \/ \E k \in Triggers, sent \in BOOLEAN, at \in Later :
            LegacyDeliverReturn(k, sent, at)

SpecLegacy == InitLegacy /\ [][NextLegacy]_vars

\* the call fetched the reachability the row holds while the row's
\* transition is not yet notified
Pending(c) ==
    /\ ~isPeriodicWarn(c[1])
    /\ Fetched(c)
    /\ TaskOf(c).health.isHealthy = RowOf(c).is_alive
    /\ ~RowOf(c).is_alive_transition_notified_by_monitor

-----------------------------------------------------------------------------
(* Further properties of the calls of Spec.                                *)

\* what a reporting change-driven tick persists for a row and a health map:
\* the fetched reachability, the time of the update as the transition time
\* on a flip and the stored one otherwise, the fetched map as the snapshot
\* when there is one
ChangeDrivenWrite(row, health, updatedAt) ==
    [row EXCEPT !.is_alive = health.isHealthy,
                !.is_alive_transition_at =
                    IF health.isHealthy # row.is_alive THEN updatedAt ELSE @,
                !.updated_at = updatedAt,
                !.response_map =
                    IF health.responseMap = Undefined THEN @ ELSE health.responseMap]

\* C25: the periodic tick runs the pipeline of the change-driven tick and
\* differs only in always reporting: for the same stored row and the same
\* fetch result, the update it issues carries the is_alive, the transition
\* time and the snapshot a reporting change-driven tick persists, and it
\* classifies the service online or offline by that is_alive.
C25_PeriodicPersistsAsChangeDriven ==
    \A c \in Returned :
        (Fetched(c) /\ Issued(c)) =>
            LET due == ChangeDrivenWrite(RowOf(c), TaskOf(c).health, TaskOf(c).updatedAt)
            IN  /\ TaskOf(c).isHealthy = due.is_alive
                /\ TaskOf(c).isAliveTransitionAt = due.is_alive_transition_at
                /\ Written(c) =>
                    /\ TaskOf(c).wrote =
                           ChangeDrivenWrite(TaskOf(c).over, TaskOf(c).health,
                                             TaskOf(c).updatedAt)
                    /\ TaskOf(c).result # Null
                    /\ TaskOf(c).result.isHealthy = TaskOf(c).wrote.is_alive

\* a periodic tick finds the service up that the row says is down, with a
\* monitor map: it writes the flip, the time and the map, and reports it up
C25_Witness ==
    \E c \in Returned :
        /\ isPeriodicWarn(c[1])
        /\ Fetched(c)
        /\ Differs(c)
        /\ TaskOf(c).outcome.kind = "monitor"
        /\ Written(c)
        /\ TaskOf(c).updatedAt > 0
        /\ db[c[2]] = ChangeDrivenWrite(RowOf(c), TaskOf(c).health, TaskOf(c).updatedAt)
        /\ db[c[2]].is_alive_transition_at > 0
        /\ TaskOf(c).result.isHealthy

\* C26: a change-driven tick with no reportable condition (no availability
\* transition, nothing added, modified or removed) issues no update: the
\* row of the service, is_alive, the transition time and the snapshot
\* included, is after the call what the cycle read.
C26_SilentTickWritesNothing ==
    \A c \in Returned :
        (/\ ~isPeriodicWarn(c[1])
         /\ Fetched(c)
         /\ ~Differs(c)
         /\ NoDelta(c))
        => /\ ~Issued(c)
           /\ TaskOf(c).over = Null
           /\ db[c[2]] = RowOf(c)

\* the gateway sent a map that differs from the snapshot in an unwatched
\* value only: the tick is silent and the row keeps the old snapshot
C26_Witness ==
    \E c \in Returned :
        /\ ~isPeriodicWarn(c[1])
        /\ Fetched(c)
        /\ ~Differs(c)
        /\ NoDelta(c)
        /\ TaskOf(c).outcome.kind = "monitor"
        /\ RowOf(c).response_map # NullV
        /\ TaskOf(c).health.responseMap # RowOf(c).response_map
        /\ db[c[2]] = RowOf(c)
        /\ now > RowOf(c).updated_at

\* the calls that have returned after a structured fetch
Structured == {c \in Returned : Fetched(c) /\ TaskOf(c).outcome.kind = "monitor"}

\* the snapshot the next cycle of Spec will read for the service of call c
SnapshotLeft(c) == db[c[2]].response_map

\* C27 as stated: at the start of every cycle the stored snapshot holds the
\* property values of the previous cycle's structured fetch, the values of
\* unwatched properties included; that is, a call that has returned after
\* a structured fetch leaves the fetched map as the snapshot.
C27_SnapshotIsPreviousFetch ==
    \A c \in Structured : SnapshotLeft(c) = MapValue(TaskOf(c).outcome.monitor)

\* C27 (amended): a call that has returned after a structured fetch leaves
\* the fetched map as the snapshot when its update was written, and the
\* snapshot the cycle read otherwise; when it issued no update, that older
\* snapshot has the keys of the fetched map and its value for every watched
\* property, while values of unwatched properties may be older.
C27_SnapshotIsLastWrittenFetch ==
    \A c \in Structured :
        LET fetched == TaskOf(c).outcome.monitor
        IN  /\ Written(c) => SnapshotLeft(c) = MapValue(fetched)
            /\ ~Written(c) => SnapshotLeft(c) = RowOf(c).response_map
            /\ ~Issued(c) =>
                /\ SnapshotLeft(c) # NullV
                /\ Keys(SnapshotLeft(c).map) = Keys(fetched)
                /\ \A e \in Range(fetched) :
                        e.v.isListeningModifiedEvent
                            => Get(SnapshotLeft(c).map, e.k).value = e.v.value

\* a written update records the new value of an unwatched property too
C27_Witness ==
    \E c \in Structured :
        /\ Written(c)
        /\ RowOf(c).response_map # NullV
        /\ SnapshotLeft(c) = MapValue(TaskOf(c).outcome.monitor)
        /\ \E e \in Range(TaskOf(c).outcome.monitor) :
                /\ ~e.v.isListeningModifiedEvent
                /\ e.k \in Keys(RowOf(c).response_map.map)
                /\ Get(RowOf(c).response_map.map, e.k).value # e.v.value

-----------------------------------------------------------------------------
(* Properties of the calls of one cycle over several services.             *)

\* the calls of the cycles that are running
Running == {c \in Triggers \X DOMAIN db : cyc[c[1]].phase = "running"}

\* C28: within one cycle at most one update is issued for a service; it is
\* issued after the fetch and the diff of that service have completed and
\* before the render of that service is produced.
C28_OneUpdateBetweenDiffAndRender ==
    /\ [](\A c \in Running :
            /\ TaskOf(c).pc = "fetching"
                    => (TaskOf(c).health = Null /\ ~Issued(c))
            /\ TaskOf(c).pc = "updating"
                    => /\ TaskOf(c).health # Null
                       /\ ~Issued(c)
                       /\ TaskOf(c).result = Null
            /\ Issued(c) => TaskOf(c).pc = "done"
            /\ TaskOf(c).result # Null
                    => (Written(c) /\ TaskOf(c).renderedAt >= TaskOf(c).updatedAt))
    /\ [][\A s \in DOMAIN db :
            /\ db'[s] # db[s]
                    => \E k \in Triggers :
                            /\ cyc[k].phase = "running"
                            /\ cyc[k].tasks[s].pc = "updating"
                            /\ cyc'[k].tasks[s].pc = "done"
                            /\ cyc'[k].tasks[s].wrote = db'[s]
            /\ \A k \in Triggers :
                    (/\ cyc[k].phase = "running"
                     /\ cyc'[k].phase = "running"
                     /\ cyc[k].tasks[s].pc = "done")
                    => cyc'[k].tasks[s] = cyc[k].tasks[s]]_vars

\* one service has its update written and its render made while the update
\* of another is still outstanding
C28_Witness ==
    \E c, d \in Running :
        /\ c[1] = d[1]
        /\ Written(c)
        /\ TaskOf(c).result # Null
        /\ db[c[2]] = TaskOf(c).wrote
        /\ db[c[2]] # RowOf(c)
        /\ TaskOf(d).pc = "updating"

\* C29: a service whose is_monitor_application_active is false is never
\* fetched, never written to and never part of a report, and no step of a
\* cycle changes is_monitor_application_active or deletes a service.
C29_InactiveUntouched ==
    /\ [](\A s \in DOMAIN db :
            ~db[s].is_monitor_application_active
                => /\ \A k \in Triggers :
                        /\ cyc[k].tasks[s] = NoTask
                        /\ cyc[k].phase = "running" => cyc[k].rows[s] = Null
                   /\ \A i \in DOMAIN posts : ~Reports(posts[i], s))
    /\ [][/\ DOMAIN db' = DOMAIN db
          /\ \A s \in DOMAIN db :
                /\ db'[s].is_monitor_application_active
                        = db[s].is_monitor_application_active
                /\ ~db[s].is_monitor_application_active => db'[s] = db[s]]_vars

\* a report is out that names the active service, written to in this cycle,
\* while the other service is deactivated
C29_Witness ==
    \E s, t \in DOMAIN db :
        /\ ~db[s].is_monitor_application_active
        /\ db[t].is_monitor_application_active
        /\ db[t].updated_at > 0
        /\ Len(posts) = 1
        /\ Reports(posts[1], t)
        /\ posts[1].evaluated = 1

\* the fetch of call c can return now, whatever the other calls are doing
CanFetchReturn(c) ==
    ENABLED (\E outcome \in Outcomes, at \in Later :
                FetchReturn(c[1], c[2], outcome, at))

\* the update of call c can settle now, whatever the other calls are doing
CanUpdateReturn(c) ==
    ENABLED (\E written \in BOOLEAN, at \in Later :
                UpdateReturn(c[1], c[2], written, at))

\* C30: within a cycle the fetch of every active service is started without
\* waiting for the fetch, the diff or the update of any other service: every
\* row the cycle read has its call under way from the start, and a call that
\* waits for its fetch or its update can go on while other fetches hang.
C30_FetchesStartTogether ==
    \A c \in Running :
        /\ RowOf(c) # Null => TaskOf(c).pc # "none"
        /\ TaskOf(c).pc = "fetching" => CanFetchReturn(c)
        /\ TaskOf(c).pc = "updating" => CanUpdateReturn(c)

\* one fetch hangs while another service has been fetched, written and
\* rendered
C30_Witness ==
    \E c, d \in Running :
        /\ c[1] = d[1]
        /\ c[2] < d[2]
        /\ TaskOf(c).pc = "fetching"
        /\ TaskOf(d).pc = "done"
        /\ Written(d)
        /\ TaskOf(d).result # Null

-----------------------------------------------------------------------------
(* Properties of the render and of the buckets.                            *)

\* C32: the render of a service carries the since-line under its header if
\* and only if the tick is periodic or the fetched reachability differs from
\* the is_alive the cycle read; a render made only because of added,
\* modified or removed properties has none, and the added, modified and
\* removed messages never have one.
C32_SinceIffPeriodicOrFlip ==
    \A c \in Returned :
        TaskOf(c).result # Null =>
            LET messageMap == TaskOf(c).result.messageMap
            IN  /\ (SinceOf(c) # Undefined) <=> (isPeriodicWarn(c[1]) \/ Differs(c))
                /\ \A field \in {"propertyAddedMessage", "propertyModifiedMessage",
                                 "propertyRemovedMessage"} :
                        messageMap[field] # Undefined
                            => messageMap[field].since = Undefined

\* a change-driven tick reports a modified property of a service whose
\* reachability did not change: the render has no since-line
C32_Witness ==
    \E c \in Returned :
        /\ ~isPeriodicWarn(c[1])
        /\ Fetched(c)
        /\ ~Differs(c)
        /\ hasPropertyModified(TaskOf(c).health)
        /\ TaskOf(c).result # Null
        /\ SinceOf(c) = Undefined
        /\ TaskOf(c).result.messageMap.propertyModifiedMessage # Undefined

\* the list of the buckets of a cycle holds a message of service s
Holding(list, s) == \E i \in DOMAIN list : list[i].header = s

\* C35: no property delta is dropped at aggregation: whenever the render of
\* a service is non-null and its diff has an added, modified or removed
\* property, the isHealthy of the render is true, so the buckets the cycle
\* builds from its renders hold the service's added, modified and removed
\* message, whichever of them its diff calls for.
C35_DeltasReachBuckets ==
    \A c \in Returned :
        (TaskOf(c).result # Null /\ ~NoDelta(c)) =>
            LET b == Buckets(cyc[c[1]].tasks)
                health == TaskOf(c).health
            IN  /\ TaskOf(c).result.isHealthy
                /\ Holding(b.online, c[2])
                /\ hasPropertyAdded(health) => Holding(b.added, c[2])
                /\ hasPropertyModified(health) => Holding(b.modified, c[2])
                /\ hasPropertyRemoved(health) => Holding(b.removed, c[2])

\* two services of one cycle have a delta each, of different kinds
C35_Witness ==
    \E c, d \in Returned :
        /\ c[1] = d[1]
        /\ c[2] < d[2]
        /\ TaskOf(c).result # Null
        /\ TaskOf(d).result # Null
        /\ hasPropertyModified(TaskOf(c).health)
        /\ hasPropertyRemoved(TaskOf(d).health)
        /\ Holding(Buckets(cyc[c[1]].tasks).modified, c[2])
        /\ Holding(Buckets(cyc[c[1]].tasks).removed, d[2])

\* the calls that have returned after a fetch without a monitor map: the
\* service was unreachable, or reachable without a structured payload
Unstructured == {c \in Returned : Fetched(c) /\ TaskOf(c).outcome.kind # "monitor"}

\* C36: a cycle in which a service is unreachable, or reachable without a
\* structured payload, leaves the stored snapshot as it was, whether or not
\* it writes the row; so when the service later returns the payload the
\* snapshot holds, the diff has nothing added, modified or removed.
C36_OutageKeepsSnapshot ==
    /\ \A c \in Unstructured :
            /\ SnapshotLeft(c) = RowOf(c).response_map
            /\ NoDelta(c)
    /\ \A c \in Structured :
            RowOf(c).response_map = TaskOf(c).health.responseMap => NoDelta(c)

\* the row was written while the service was down and kept its snapshot;
\* the service is back with the payload of that snapshot and is reported
\* as back, with no delta
C36_Witness ==
    \E c \in Structured :
        /\ ~RowOf(c).is_alive
        /\ RowOf(c).updated_at > 0
        /\ RowOf(c).response_map = MapValue(StoredMap)
        /\ TaskOf(c).health.responseMap = MapValue(StoredMap)
        /\ NoDelta(c)
        /\ TaskOf(c).result # Null

-----------------------------------------------------------------------------
(* Properties of overlapping cycles and of the scheduling.                 *)

\* calls c and d of two cycles observe the same change of reachability of
\* one service: both read the same is_alive and both fetch the opposite
SameFlip(c, d) ==
    /\ c[1] # d[1]
    /\ c[2] = d[2]
    /\ Fetched(c) /\ Fetched(d)
    /\ RowOf(c).is_alive = RowOf(d).is_alive
    /\ Differs(c) /\ Differs(d)

\* C34: each availability flip of a service is announced by at most one
\* cycle: when a periodic and an interval cycle overlap and both observe the
\* same change of reachability, only one of them reports the service as
\* transitioned and only one of them sets is_alive_transition_at.
C34_FlipAnnouncedOnce ==
    \A c, d \in Returned :
        SameFlip(c, d) =>
            /\ ~(TaskOf(c).result # Null /\ TaskOf(d).result # Null)
            /\ ~(Written(c) /\ Written(d))

\* C33: at most one interval-driven cycle is in flight at any time: while
\* the handler of the interval runs no timeout is pending, the timeout is
\* armed only in the step in which that handler returns, for
\* MONITORING_INTERVAL later, and an interval cycle starts only when the
\* pending timeout is due; so no two interval cycles read or write a service
\* concurrently.
C33_OneIntervalCycleInFlight ==
    /\ [](cyc["interval"].phase = "running" => timer = -1)
    /\ [][/\ (timer' # timer /\ timer' # -1)
                => /\ timer = -1 \/ started' = started + 1
                   /\ cyc'["interval"].phase = "idle"
                   /\ timer' = now' + MONITORING_INTERVAL
          /\ (cyc["interval"].phase = "idle" /\ cyc'["interval"].phase = "running")
                => /\ timer >= 0
                   /\ now' >= timer
                   /\ timer' = -1]_vars

\* the second interval cycle runs, started when the timeout armed at the
\* return of the first was due; the report of the first, which has no
\* since-line and so is not a periodic one, is still on its way
C33_Witness ==
    /\ started = 2
    /\ cyc["interval"].phase = "running"
    /\ cyc["interval"].startTime >= MONITORING_INTERVAL
    /\ cyc["periodic"].phase = "idle"
    /\ timer = -1
    /\ Len(posts) = 1
    /\ Len(posts[1].lists.online) = 1
    /\ posts[1].lists.online[1].since = Undefined

-----------------------------------------------------------------------------
(* formatDuration alone. Its argument is a number of minutes, elapsed      *)
(* milliseconds divided by 60 000, so it need not be whole.                *)

MaxMinutes == 3000

\* elapsed times of whole minutes, of a millisecond more and of a
\* millisecond less, up to MaxMinutes either side of zero
DurationInputs ==
    {m * MsPerMinute + f : m \in (0 - MaxMinutes)..MaxMinutes,
                           f \in {0, 1, MsPerMinute - 1}}

InitDuration ==
    /\ MainIdle
    /\ dPrevious = NullV
    /\ dCurrent = <<>>
    /\ dHealth = Null
    /\ tElapsed \in DurationInputs
    /\ tText = <<>>

ApplyFormatDuration ==
    /\ tText = <<>>
    /\ tText' = formatDuration(tElapsed)
    /\ UNCHANGED <<mainVars, dPrevious, dCurrent, dHealth, tElapsed>>

NextDuration == ApplyFormatDuration

SpecDuration == InitDuration /\ [][NextDuration]_vars

\* the text for d days, h hours and r minutes: each component that is not
\* zero, in that order
DurationText(d, h, r) ==
    (IF d > 0 THEN <<Part(d, "d")>> ELSE <<>>)
    \o (IF h > 0 THEN <<Part(h, "h")>> ELSE <<>>)
    \o (IF r > 0 THEN <<Part(r, "m")>> ELSE <<>>)

\* C37: for every non-negative number of minutes m, formatDuration renders
\* days d, hours h in 0..23 and minutes r in 0..59 with
\* d*1440 + h*60 + r = floor(m), leaves out every component that is zero and
\* renders "0m" when all three are zero; for a negative m it renders "0m".
C37_DurationDecomposes ==
    tText # <<>> =>
        LET m == tElapsed \div MsPerMinute
        IN  IF tElapsed < 0 \/ m = 0
            THEN tText = <<Part(0, "m")>>
            ELSE \E d \in 0..(m \div 1440), h \in 0..23, r \in 0..59 :
                    /\ d * 1440 + h * 60 + r = m
                    /\ tText = DurationText(d, h, r)

\* a time of days, hours, minutes and a fraction of a minute
C37_Witness ==
    /\ tText # <<>>
    /\ Len(tText) = 3
    /\ tElapsed % MsPerMinute # 0
    /\ tText[1].n = 2

-----------------------------------------------------------------------------
(* The interval-driven loop on its own, with the progress its scheduling   *)
(* gives: a due timeout fires, a request settles, a settled Promise.all    *)
(* resumes the handler.                                                    *)

\* the timeout of executeWithDelay fires and the handler is entered
IntervalStarts ==
    \E loaded \in BOOLEAN, at \in Later : StartCycle("interval", loaded, at, FALSE)

NextLoop ==
    \/ IntervalStarts
    \/ \E k \in Triggers, s \in Services, outcome \in Outcomes, at \in Later :
            FetchReturn(k, s, outcome, at)
    \/ \E k \in Triggers, s \in Services, written \in BOOLEAN, at \in Later :
            UpdateReturn(k, s, written, at)
    \/ \E k \in Triggers : Join(k)
    \/ \E i \in 1..MaxCycles, sent \in BOOLEAN : DeliverReturn(i, sent)

SpecLoop == Init /\ [][NextLoop]_vars /\ WF_vars(NextLoop)

\* an interval cycle has ended, by the return of its handler after the
\* report or after a failed load, and the timeout set for the next one falls
\* within the cycles and the time the model follows
IntervalEnded ==
    /\ started >= 1
    /\ started < MaxCycles
    /\ cyc["interval"].phase = "idle"
    /\ timer >= 0
    /\ timer <= MaxTicks * TickMs

\* C31: the interval-driven loop never stops: after every change-driven
\* cycle has ended, whether it completed or hit a fetch, persistence, load
\* or delivery failure, another change-driven cycle is eventually started.
\* In SpecLoop only interval cycles start, so started counts them.
C31_LoopNeverStops ==
    \A n \in 1..(MaxCycles - 1) :
        [](IntervalEnded /\ started = n => <>(started > n))

====
